---- MODULE Spec2Model ----
\* A model of the Mergington High School API (src/src/app.py): the credential
\* hasher, the token service, the user store with its file persistence, the
\* auth endpoints and the activity roster, with the request handlers run by
\* a pool of threads, one handler step at a time.
EXTENDS Integers, Sequences, FiniteSets, TLC

\* ---------------------------------------------------------------- bounds
\* Worker threads that run the (synchronous) handlers concurrently.
NThreads == 2
\* Clock advances the model follows; one advance is half a token lifetime.
MaxTicks == 3
\* Distinct values secrets.token_bytes can return.
NSalts == 2
\* Tokens in clients' hands before clients stop asking for new ones.
MaxIssued == 2

\* ------------------------------------------------------ program constants
TOKEN_EXPIRATION_MINUTES == 60
MIN_PASSWORD_LENGTH == 8
PBKDF2_ITERATIONS == 100000
SECRET_KEY == "dev-secret-change-me"

Threads == 1..NThreads
SaltBytes == 1..NSalts
TickLen == TOKEN_EXPIRATION_MINUTES \div 2
\* Offsets (local time minus UTC, in minutes) of the process's time zone.
TZOffsets == {0 - TOKEN_EXPIRATION_MINUTES, 0, TOKEN_EXPIRATION_MINUTES}

\* ------------------------------------------------------------ input sets
RawEmails == {"A@x.com", "a@X.com", "b@x.com"}
PwdA == <<"l", "o", "n", "g", "p", "w", "d", "1">>
PwdB == <<"l", "o", "n", "g", "p", "w", "d", "2">>
PwdShort == <<"s", "h", "o", "r", "t", "_", "7">>
Passwords == {PwdA, PwdB, PwdShort}
NoPassword == <<>>

\* ------------------------------------------------------ credential hasher
\* str.lower on the e-mail addresses the model uses.
Lower(e) ==
    CASE e = "A@x.com" -> "a@x.com"
      [] e = "a@X.com" -> "a@x.com"
      [] OTHER -> e

\* bytes.hex / bytes.fromhex
Hex(b) == <<"hex", b>>
FromHex(h) == h[2]

\* hashlib.pbkdf2_hmac("sha256", ...): an ideal (collision-free) derivation.
Pbkdf2(password, saltBytes) == <<"pbkdf2-sha256", password, saltBytes, PBKDF2_ITERATIONS>>

\* _hash_password once the salt bytes are known (fresh or decoded from hex).
HashWithSaltBytes(password, saltBytes) ==
    [salt |-> Hex(saltBytes), hash |-> Hex(Pbkdf2(password, saltBytes))]

\* _hash_password(password, salt) with a salt given.
_hash_password(password, salt) == HashWithSaltBytes(password, FromHex(salt))

\* The candidate password compared with the stored digest, unhashed.
_verify_password_unhashed(password, salt, expectedHash) ==
    Hex(password) = expectedHash

\* _verify_password: hmac.compare_digest is equality of the two strings.
_verify_password(password, salt, expectedHash) ==
    _hash_password(password, salt).hash = expectedHash

\* ----------------------------------------------------------- token service
NoCred == [present |-> FALSE, payload |-> [sub |-> "", iat |-> 0, exp |-> 0], sig |-> <<>>]

\* HMAC-SHA256 of the payload under a key: an ideal MAC.
HS256(payload, key) == <<"HS256", key, payload>>

\* datetime.utcnow() is a naive datetime holding UTC wall time, and
\* naive.timestamp() reads a naive datetime as LOCAL time: the epoch value
\* is off by the zone's offset.
NaiveTimestamp(wallMinutes, offset) == wallMinutes - offset

\* _create_token(email) at UTC time t in a process whose zone offset is offset.
_create_token(email, t, offset) ==
    LET payload == [sub |-> email,
                    iat |-> NaiveTimestamp(t, offset),
                    exp |-> NaiveTimestamp(t + TOKEN_EXPIRATION_MINUTES, offset)]
    IN  [present |-> TRUE, payload |-> payload, sig |-> HS256(payload, SECRET_KEY)]

Accept(sub) == [ok |-> TRUE, sub |-> sub, detail |-> "ok"]
Reject(detail) == [ok |-> FALSE, sub |-> "", detail |-> detail]

\* Decoding with the signature check switched off.
_decode_token_unverified(token, t) ==
    IF token.payload.iat > t THEN Reject("Invalid token")
    ELSE IF token.payload.exp <= t THEN Reject("Token expired")
    ELSE IF token.payload.sub = "" THEN Reject("Invalid token payload")
    ELSE Accept(token.payload.sub)

\* _decode_token(token) at UTC time t. jwt.decode verifies the signature,
\* then iat (a token issued in the future is immature), then exp; both
\* failures but expiry are InvalidTokenError.
_decode_token(token, t) ==
    IF token.sig # HS256(token.payload, SECRET_KEY) THEN Reject("Invalid token")
    ELSE IF token.payload.iat > t THEN Reject("Invalid token")
    ELSE IF token.payload.exp <= t THEN Reject("Token expired")
    ELSE IF token.payload.sub = "" THEN Reject("Invalid token payload")
    ELSE Accept(token.payload.sub)

\* get_current_user(credentials)
get_current_user(cred, t) ==
    IF ~cred.present THEN Reject("Missing credentials") ELSE _decode_token(cred, t)

\* -------------------------------------------------------------- user store
EmptyMap == [e \in {} |-> [salt |-> <<>>, hash |-> <<>>]]
Put(m, k, v) == [x \in (DOMAIN m) \cup {k} |-> IF x = k THEN v ELSE m[x]]

\* A file: whether it exists, whether it can be opened and read (no
\* OSError), whether its bytes are UTF-8 text, whether the text is a
\* complete JSON document and whether that document is an object; obj is
\* the mapping written. json.dump writes the mapping; a write that was cut
\* short leaves an incomplete text.
NoFile ==
    [exists |-> FALSE, readable |-> FALSE, text |-> FALSE, complete |-> FALSE,
     object |-> FALSE, obj |-> EmptyMap]
JsonFile(m) ==
    [exists |-> TRUE, readable |-> TRUE, text |-> TRUE, complete |-> TRUE,
     object |-> TRUE, obj |-> m]
PartialFile(m) ==
    [exists |-> TRUE, readable |-> TRUE, text |-> TRUE, complete |-> FALSE,
     object |-> FALSE, obj |-> m]
\* A file whose open or read fails (permissions, a directory, a bad disk).
UnreadableFile(m) == [JsonFile(m) EXCEPT !.readable = FALSE]
\* Bytes that are not UTF-8.
BinaryFile == [PartialFile(EmptyMap) EXCEPT !.text = FALSE]
\* A JSON document that is a list, a number, a string or null.
NonObjectFile == [JsonFile(EmptyMap) EXCEPT !.object = FALSE]

\* How the body of the try-block ends: open, read and decode the bytes,
\* parse the text.
ReadJson(file) ==
    IF ~file.readable THEN "OSError"
    ELSE IF ~file.text THEN "UnicodeDecodeError"
    ELSE IF ~file.complete THEN "JSONDecodeError"
    ELSE "value"

\* except (json.JSONDecodeError, OSError)
Caught == {"JSONDecodeError", "OSError"}

\* The exception leaves _load_users_from_disk.
LoadRaises(file) == file.exists /\ ReadJson(file) \notin Caught \cup {"value"}

\* _load_users_from_disk, where it returns: the object in the file, and the
\* empty mapping for a missing file, a caught exception and a document
\* that is not an object.
_load_users_from_disk(file) ==
    IF ~file.exists THEN EmptyMap
    ELSE IF ReadJson(file) = "value" /\ file.object THEN file.obj
    ELSE EmptyMap

\* ---------------------------------------------------------------- roster
ActivityNames == {"Chess Club", "Math Club"}
UnknownName == "Knitting Club"
SeedActivities ==
    [n \in ActivityNames |->
        IF n = "Chess Club"
        THEN [description |-> "Learn strategies and compete in chess tournaments",
              schedule |-> "Fridays, 3:30 PM - 5:00 PM",
              max_participants |-> 12,
              participants |-> <<"michael@mergington.edu", "daniel@mergington.edu">>]
        ELSE [description |-> "Solve challenging problems and participate in math competitions",
              schedule |-> "Tuesdays, 3:30 PM - 4:30 PM",
              max_participants |-> 10,
              participants |-> <<"james@mergington.edu", "benjamin@mergington.edu">>]]

Range(s) == {s[i] : i \in 1..Len(s)}
\* email in activity["participants"]
Contains(s, e) == e \in Range(s)
\* Dropping the head of the list, whoever it is.
RemoveHead(s, e) == Tail(s)

\* list.remove(e): drops the first occurrence (the caller makes sure there is one).
FirstIndex(s, e) == CHOOSE i \in 1..Len(s) : s[i] = e /\ \A j \in 1..(i - 1) : s[j] # e
RemoveFirst(s, e) ==
    LET k == FirstIndex(s, e)
    IN  [i \in 1..(Len(s) - 1) |-> IF i < k THEN s[i] ELSE s[i + 1]]
Count(s, e) == Cardinality({i \in 1..Len(s) : s[i] = e})

\* ------------------------------------------------------------------ state
VARIABLES
    now,            \* UTC time, minutes
    ticks,          \* clock advances so far
    tz,             \* the process's zone offset, minutes
    users,          \* the in-memory user store: email -> [salt, hash]
    USERS_FILE,     \* data/users.json
    temp_path,      \* data/users.tmp
    _users_lock,    \* 0 when free, else the holding thread
    activities,     \* the in-memory activity database
    issued,         \* tokens handed to clients: [token, at], at the UTC time of issue
    registeredWith, \* history: the password each email was first stored with
    successes,      \* history: per email, the register requests answered with a token
    atStart,        \* history: the registered emails and the rosters when each request arrived
    pc,             \* where each thread is in its handler
    req,            \* the request each thread is serving
    subj,           \* current_user of the request (from get_current_user)
    resp            \* the response of the request

vars == <<now, ticks, tz, users, USERS_FILE, temp_path, _users_lock, activities, issued,
          registeredWith, successes, atStart, pc, req, subj, resp>>
envVars == <<now, ticks, tz>>
storeVars == <<users, USERS_FILE, temp_path, _users_lock, registeredWith>>
\* The tokens clients hold.
Tokens == {g.token : g \in issued}
Grant(token, t) == [token |-> token, at |-> t]
Snapshot(m, acts) == [emails |-> DOMAIN m, activities |-> acts]

NoReq == [op |-> "none", email |-> "", password |-> NoPassword, cred |-> NoCred, name |-> ""]
NoResp == [status |-> 0, detail |-> "", token |-> NoCred, email |-> ""]

Response(status, detail) == [status |-> status, detail |-> detail, token |-> NoCred, email |-> ""]
TokenResponse(token) == [status |-> 200, detail |-> "bearer", token |-> token, email |-> ""]

Init ==
    /\ now = 0
    /\ ticks = 0
    /\ tz \in TZOffsets
    /\ USERS_FILE = NoFile
    /\ temp_path = NoFile
    /\ users = _load_users_from_disk(USERS_FILE)
    /\ _users_lock = 0
    /\ activities = SeedActivities
    /\ issued = {}
    /\ registeredWith = [e \in {} |-> NoPassword]
    /\ successes = [e \in {} |-> 0]
    /\ atStart = [t \in Threads |-> Snapshot(EmptyMap, SeedActivities)]
    /\ pc = [t \in Threads |-> "idle"]
    /\ req = [t \in Threads |-> NoReq]
    /\ subj = [t \in Threads |-> ""]
    /\ resp = [t \in Threads |-> NoResp]

\* ------------------------------------------------------------- requests
EntryPc(op) ==
    CASE op = "register" -> "reg_validate"
      [] op = "login" -> "login"
      [] op = "whoami" -> "whoami"
      [] op = "signup" -> "su_auth"
      [] op = "unregister" -> "un_auth"

\* A thread picks up a request.
Begin(t, r) ==
    /\ pc[t] = "idle"
    /\ pc' = [pc EXCEPT ![t] = EntryPc(r.op)]
    /\ req' = [req EXCEPT ![t] = r]
    /\ resp' = [resp EXCEPT ![t] = NoResp]
    /\ subj' = [subj EXCEPT ![t] = ""]
    /\ atStart' = [atStart EXCEPT ![t] = Snapshot(users, activities)]
    /\ UNCHANGED <<envVars, storeVars, activities, issued, successes>>

\* The handler returns or raises: the response goes out.
Finish(t, r) ==
    /\ pc' = [pc EXCEPT ![t] = "done"]
    /\ resp' = [resp EXCEPT ![t] = r]
    /\ UNCHANGED atStart

Goto(t, label) ==
    /\ pc' = [pc EXCEPT ![t] = label]
    /\ UNCHANGED <<resp, atStart>>

\* The thread is free again.
Return(t) ==
    /\ pc[t] = "done"
    /\ pc' = [pc EXCEPT ![t] = "idle"]
    /\ req' = [req EXCEPT ![t] = NoReq]
    /\ resp' = [resp EXCEPT ![t] = NoResp]
    /\ subj' = [subj EXCEPT ![t] = ""]
    /\ atStart' = [atStart EXCEPT ![t] = Snapshot(EmptyMap, SeedActivities)]
    /\ UNCHANGED <<envVars, storeVars, activities, issued, successes>>

Tick ==
    /\ ticks < MaxTicks
    /\ ticks' = ticks + 1
    /\ now' = now + TickLen
    /\ UNCHANGED <<tz, storeVars, activities, issued, successes, atStart, pc, req,
                   subj, resp>>

\* ------------------------------------------------- POST /auth/register
\* A lock that never makes a thread wait.
LockFreeAlways(l) == TRUE

\* _users_lock can be taken when no thread holds it.
LockFree(l) == l = 0

\* A handler that takes every password.
WeakPasswordNever(password) == FALSE

\* len(auth_request.password) < 8
WeakPassword(password) == Len(password) < MIN_PASSWORD_LENGTH

\* A guard that finds no address registered.
AlreadyExistsNever(m, email) == FALSE

\* The with-block's guard: email in users.
AlreadyExists(m, email) == email \in DOMAIN m

RegValidate(t) ==
    /\ pc[t] = "reg_validate"
    /\ IF WeakPassword(req[t].password)
       THEN Finish(t, Response(400, "Password must be at least 8 characters"))
       ELSE Goto(t, "reg_lock")
    /\ UNCHANGED <<envVars, storeVars, activities, issued, successes, req, subj>>

RegLock(t) ==
    /\ pc[t] = "reg_lock"
    /\ LockFree(_users_lock)
    /\ _users_lock' = t
    /\ Goto(t, "reg_check")
    /\ UNCHANGED <<envVars, users, USERS_FILE, temp_path, registeredWith, activities,
                   issued, successes, req, subj>>

\* A handler that keeps the lock when it answers "User already exists".
RegCheckKeepsLock(t) ==
    /\ pc[t] = "reg_check"
    /\ IF AlreadyExists(users, Lower(req[t].email))
       THEN Finish(t, Response(400, "User already exists"))
       ELSE Goto(t, "reg_insert")
    /\ UNCHANGED <<envVars, storeVars, activities, issued, successes, req, subj>>

RegCheck(t) ==
    /\ pc[t] = "reg_check"
    /\ IF AlreadyExists(users, Lower(req[t].email))
       THEN /\ Finish(t, Response(400, "User already exists"))
            /\ _users_lock' = 0
       ELSE /\ Goto(t, "reg_insert")
            /\ UNCHANGED _users_lock
    /\ UNCHANGED <<envVars, users, USERS_FILE, temp_path, registeredWith, activities,
                   issued, successes, req, subj>>

\* pwd = _hash_password(password); users[email] = {...}, the salt being sb.
RegInsert(t, sb) ==
    /\ pc[t] = "reg_insert"
    /\ LET email == Lower(req[t].email)
           pwd == HashWithSaltBytes(req[t].password, sb)
       IN  /\ users' = Put(users, email, [hash |-> pwd.hash, salt |-> pwd.salt])
           /\ registeredWith' = IF email \in DOMAIN registeredWith
                                THEN registeredWith
                                ELSE Put(registeredWith, email, req[t].password)
    /\ Goto(t, "reg_write_tmp")
    /\ UNCHANGED <<envVars, USERS_FILE, temp_path, _users_lock, activities, issued, successes, req, subj>>

\* A save that writes the record of the request alone, not the mapping.
RegWriteTmpOwnRecord(t, outcome) ==
    /\ pc[t] = "reg_write_tmp"
    /\ LET email == Lower(req[t].email)
       IN  temp_path' = JsonFile(Put(EmptyMap, email, users[email]))
    /\ Goto(t, "reg_rename")
    /\ UNCHANGED <<envVars, users, USERS_FILE, _users_lock, registeredWith, activities,
                   issued, successes, req, subj>>

\* A save that writes users.json itself, with no temporary file.
RegWriteInPlace(t, outcome) ==
    /\ pc[t] = "reg_write_tmp"
    /\ CASE outcome = "ok" ->
              /\ USERS_FILE' = JsonFile(users)
              /\ Goto(t, "reg_token")
         [] outcome = "open_fails" ->
              /\ UNCHANGED USERS_FILE
              /\ Finish(t, Response(500, "Internal Server Error"))
         [] outcome = "write_fails" ->
              /\ USERS_FILE' = PartialFile(users)
              /\ Finish(t, Response(500, "Internal Server Error"))
    /\ _users_lock' = 0
    /\ UNCHANGED <<envVars, users, temp_path, registeredWith, activities, issued, successes,
                   req, subj>>

\* _save_users_to_disk, first half: open users.tmp and json.dump into it.
\* outcome: "ok", or an OSError before ("open_fails") or during the write
\* ("write_fails"). The exception leaves the with-block, which releases the
\* lock, and the request ends as a server error.
RegWriteTmp(t, outcome) ==
    /\ pc[t] = "reg_write_tmp"
    /\ CASE outcome = "ok" ->
              /\ temp_path' = JsonFile(users)
              /\ Goto(t, "reg_rename")
              /\ UNCHANGED _users_lock
         [] outcome = "open_fails" ->
              /\ UNCHANGED temp_path
              /\ _users_lock' = 0
              /\ Finish(t, Response(500, "Internal Server Error"))
         [] outcome = "write_fails" ->
              /\ temp_path' = PartialFile(users)
              /\ _users_lock' = 0
              /\ Finish(t, Response(500, "Internal Server Error"))
    /\ UNCHANGED <<envVars, users, USERS_FILE, registeredWith, activities, issued, successes,
                   req, subj>>

\* A save that swallows the failure of the rename.
RegRenameSwallowed(t, ok) ==
    /\ pc[t] = "reg_rename"
    /\ IF ok
       THEN /\ USERS_FILE' = temp_path
            /\ temp_path' = NoFile
       ELSE UNCHANGED <<USERS_FILE, temp_path>>
    /\ Goto(t, "reg_token")
    /\ _users_lock' = 0
    /\ UNCHANGED <<envVars, users, registeredWith, activities, issued, successes, req, subj>>

\* _save_users_to_disk, second half: temp_path.replace(USERS_FILE); then the
\* with-block ends and the lock is released.
RegRename(t, ok) ==
    /\ pc[t] = "reg_rename"
    /\ IF ok
       THEN /\ USERS_FILE' = temp_path
            /\ temp_path' = NoFile
            /\ Goto(t, "reg_token")
       ELSE /\ UNCHANGED <<USERS_FILE, temp_path>>
            /\ Finish(t, Response(500, "Internal Server Error"))
    /\ _users_lock' = 0
    /\ UNCHANGED <<envVars, users, registeredWith, activities, issued, successes, req, subj>>

RegToken(t) ==
    /\ pc[t] = "reg_token"
    /\ LET token == _create_token(Lower(req[t].email), now, tz)
           email == Lower(req[t].email)
       IN  /\ issued' = issued \cup {Grant(token, now)}
           /\ successes' = Put(successes, email,
                               IF email \in DOMAIN successes THEN successes[email] + 1 ELSE 1)
           /\ Finish(t, TokenResponse(token))
    /\ UNCHANGED <<envVars, storeVars, activities, req, subj>>

\* ---------------------------------------------------- POST /auth/login
\* login telling a caller that the email is not registered.
login_telling(m, rawEmail, password, t, offset) ==
    LET email == Lower(rawEmail)
    IN  IF email \notin DOMAIN m
        THEN Response(401, "Unknown user")
        ELSE IF ~_verify_password(password, m[email].salt, m[email].hash)
        THEN Response(401, "Invalid credentials")
        ELSE TokenResponse(_create_token(email, t, offset))

\* What login answers for (email, password) against the store m at time t.
login(m, rawEmail, password, t, offset) ==
    LET email == Lower(rawEmail)
    IN  IF email \notin DOMAIN m
        THEN Response(401, "Invalid credentials")
        ELSE IF ~_verify_password(password, m[email].salt, m[email].hash)
        THEN Response(401, "Invalid credentials")
        ELSE TokenResponse(_create_token(email, t, offset))

LoginStep(t) ==
    /\ pc[t] = "login"
    /\ LET r == login(users, req[t].email, req[t].password, now, tz)
       IN  /\ Finish(t, r)
           /\ issued' = IF r.status = 200 THEN issued \cup {Grant(r.token, now)} ELSE issued
    /\ UNCHANGED <<envVars, storeVars, activities, successes, req, subj>>

\* ------------------------------------------------------- GET /auth/me
Whoami(t) ==
    /\ pc[t] = "whoami"
    /\ LET r == get_current_user(req[t].cred, now)
       IN  IF r.ok
           THEN Finish(t, [status |-> 200, detail |-> "", token |-> NoCred, email |-> r.sub])
           ELSE Finish(t, Response(401, r.detail))
    /\ UNCHANGED <<envVars, storeVars, activities, issued, successes, req, subj>>

\* --------------------------------- POST /activities/{name}/signup
\* Depends(get_current_user): runs before the handler body.
SuAuth(t) ==
    /\ pc[t] = "su_auth"
    /\ LET r == get_current_user(req[t].cred, now)
       IN  IF r.ok
           THEN /\ subj' = [subj EXCEPT ![t] = r.sub]
                /\ Goto(t, "su_check")
           ELSE /\ UNCHANGED subj
                /\ Finish(t, Response(401, r.detail))
    /\ UNCHANGED <<envVars, storeVars, activities, issued, successes, req>>

\* signup without its membership guard.
SignupCheckNoMembershipGuard(acts, name, email) ==
    IF name \notin DOMAIN acts THEN Response(404, "Activity not found")
    ELSE Response(200, "ok")

\* The two guards of signup_for_activity: "ok" or the error they raise.
SignupCheck(acts, name, email) ==
    IF name \notin DOMAIN acts THEN Response(404, "Activity not found")
    ELSE IF Contains(acts[name].participants, email)
    THEN Response(400, "Student is already signed up")
    ELSE Response(200, "ok")

SuCheck(t) ==
    /\ pc[t] = "su_check"
    /\ LET r == SignupCheck(activities, req[t].name, subj[t])
       IN  IF r.status = 200 THEN Goto(t, "su_append") ELSE Finish(t, r)
    /\ UNCHANGED <<envVars, storeVars, activities, issued, successes, req, subj>>

\* activity["participants"].append(email)
SignupApply(acts, name, email) ==
    [acts EXCEPT ![name].participants = Append(@, email)]

SuAppend(t) ==
    /\ pc[t] = "su_append"
    /\ activities' = SignupApply(activities, req[t].name, subj[t])
    /\ Finish(t, [status |-> 200, detail |-> "Signed up", token |-> NoCred,
                  email |-> subj[t]])
    /\ UNCHANGED <<envVars, storeVars, issued, successes, req, subj>>

\* ------------------------------ DELETE /activities/{name}/unregister
UnAuth(t) ==
    /\ pc[t] = "un_auth"
    /\ LET r == get_current_user(req[t].cred, now)
       IN  IF r.ok
           THEN /\ subj' = [subj EXCEPT ![t] = r.sub]
                /\ Goto(t, "un_check")
           ELSE /\ UNCHANGED subj
                /\ Finish(t, Response(401, r.detail))
    /\ UNCHANGED <<envVars, storeVars, activities, issued, successes, req>>

\* The two guards of unregister_from_activity.
UnregisterCheck(acts, name, email) ==
    IF name \notin DOMAIN acts THEN Response(404, "Activity not found")
    ELSE IF ~Contains(acts[name].participants, email)
    THEN Response(400, "Student is not signed up for this activity")
    ELSE Response(200, "ok")

UnCheck(t) ==
    /\ pc[t] = "un_check"
    /\ LET r == UnregisterCheck(activities, req[t].name, subj[t])
       IN  IF r.status = 200 THEN Goto(t, "un_remove") ELSE Finish(t, r)
    /\ UNCHANGED <<envVars, storeVars, activities, issued, successes, req, subj>>

\* activity["participants"].remove(email)
UnregisterApply(acts, name, email) ==
    [acts EXCEPT ![name].participants = RemoveFirst(@, email)]

\* list.remove raises ValueError when the email is no longer in the list:
\* an unhandled exception, answered as a server error.
UnRemove(t) ==
    /\ pc[t] = "un_remove"
    /\ IF Contains(activities[req[t].name].participants, subj[t])
       THEN /\ activities' = UnregisterApply(activities, req[t].name, subj[t])
            /\ Finish(t, [status |-> 200, detail |-> "Unregistered", token |-> NoCred,
                          email |-> subj[t]])
       ELSE /\ UNCHANGED activities
            /\ Finish(t, Response(500, "Internal Server Error"))
    /\ UNCHANGED <<envVars, storeVars, issued, successes, req, subj>>

\* ------------------------------------------------------ what clients send
\* A client that does not hold the secret can only alter a token it has.
AlterSignature(token) == [token EXCEPT !.sig = <<"altered", token.sig>>]
SubstituteSubject(token, e) == [token EXCEPT !.payload.sub = e]
ExtendExpiry(token) ==
    [token EXCEPT !.payload.exp = token.payload.exp + TOKEN_EXPIRATION_MINUTES]

\* The participant a forger would like to act for.
Victim == "michael@mergington.edu"

Tampered ==
    {AlterSignature(k) : k \in Tokens}
        \cup {SubstituteSubject(k, Victim) : k \in Tokens}
        \cup {ExtendExpiry(k) : k \in Tokens}

Credentials == {NoCred} \cup Tokens \cup Tampered

AuthRequests(emails, passwords) ==
    {[op |-> o, email |-> e, password |-> p, cred |-> NoCred, name |-> ""] :
        o \in {"register", "login"}, e \in emails, p \in passwords}

WhoamiRequests(creds) ==
    {[op |-> "whoami", email |-> "", password |-> NoPassword, cred |-> c, name |-> ""] :
        c \in creds}

RosterRequests(names, creds) ==
    {[op |-> o, email |-> "", password |-> NoPassword, cred |-> c, name |-> n] :
        o \in {"signup", "unregister"}, n \in names, c \in creds}

\* Clients stop asking for tokens once MaxIssued are out.
ClientMayAsk(r) ==
    r.op \in {"register", "login"} => Cardinality(issued) < MaxIssued

\* What the file system may answer to the two halves of a save.
Faults == {"open_fails", "write_fails", "rename_fails"}
WriteOutcomes(F) == {"ok"} \cup (F \cap {"open_fails", "write_fails"})
RenameOutcomes(F) == {TRUE} \cup {FALSE : f \in F \cap {"rename_fails"}}

\* The steps of register and login, the file system answering within F.
AuthHandler(t, F) ==
    \/ RegValidate(t)
    \/ RegLock(t)
    \/ RegCheck(t)
    \/ \E sb \in SaltBytes : RegInsert(t, sb)
    \/ \E o \in WriteOutcomes(F) : RegWriteTmp(t, o)
    \/ \E ok \in RenameOutcomes(F) : RegRename(t, ok)
    \/ RegToken(t)
    \/ LoginStep(t)

\* The steps of signup.
SignupHandler(t) ==
    \/ SuAuth(t)
    \/ SuCheck(t)
    \/ SuAppend(t)

\* The steps of the roster handlers.
RosterHandler(t) ==
    \/ SignupHandler(t)
    \/ UnAuth(t)
    \/ UnCheck(t)
    \/ UnRemove(t)

Arrive(t, R) == \E r \in R : ClientMayAsk(r) /\ Begin(t, r)

\* Requests served concurrently by the thread pool.
ConcurrentRequests ==
    AuthRequests({"A@x.com", "a@X.com"}, {PwdA, PwdB})
        \cup RosterRequests(ActivityNames, Tokens)

Next ==
    \/ \E t \in Threads : Arrive(t, ConcurrentRequests)
    \/ \E t \in Threads : AuthHandler(t, {})
    \/ \E t \in Threads : RosterHandler(t)
    \/ \E t \in Threads : Return(t)

\* The process runs in UTC.
InitUTC == Init /\ tz = 0

Spec == InitUTC /\ [][Next]_vars

\* The auth endpoints, one request after the other, while time passes.
SequentialAuthRequests ==
    AuthRequests(RawEmails, Passwords) \cup WhoamiRequests(Credentials)

NextAuth ==
    \/ Tick
    \/ Arrive(1, SequentialAuthRequests)
    \/ AuthHandler(1, {})
    \/ Whoami(1)
    \/ Return(1)

SpecAuth == Init /\ [][NextAuth]_vars

\* The roster endpoints, one request after the other, while time passes.
SequentialRosterRequests ==
    AuthRequests({"A@x.com"}, {PwdA}) \cup WhoamiRequests(Credentials)
        \cup RosterRequests(ActivityNames \cup {UnknownName}, Credentials)

NextRoster ==
    \/ Tick
    \/ Arrive(1, SequentialRosterRequests)
    \/ AuthHandler(1, {})
    \/ Whoami(1)
    \/ RosterHandler(1)
    \/ Return(1)

SpecRoster == Init /\ [][NextRoster]_vars

\* Register and login requests racing for one e-mail address.
RacingAuthRequests == AuthRequests({"A@x.com", "a@X.com"}, {PwdA, PwdB})

NextRegister ==
    \/ \E t \in Threads : Arrive(t, RacingAuthRequests)
    \/ \E t \in Threads : AuthHandler(t, {})
    \/ \E t \in Threads : Return(t)

SpecRegister == InitUTC /\ [][NextRegister]_vars

\* Students registering and joining the Math Club one after the other, in
\* a UTC process whose disk works: as many as the club has free places,
\* and one more.
Students == <<"u1@x.com", "u2@x.com", "u3@x.com", "u4@x.com", "u5@x.com",
              "u6@x.com", "u7@x.com", "u8@x.com", "u9@x.com">>
FreePlaces(a) == a.max_participants - Len(a.participants)
NextStudent(k) == IF k < Len(Students) THEN {Students[k + 1]} ELSE {}

CapacityRequests ==
    LET registered == Cardinality(DOMAIN users)
        joined == Len(activities["Math Club"].participants)
                      - Len(SeedActivities["Math Club"].participants)
    IN  AuthRequests({e \in NextStudent(registered) :
                         registered <= FreePlaces(SeedActivities["Math Club"])}, {PwdA})
            \cup RosterRequests({"Math Club"},
                                {k \in Tokens : k.payload.sub \in NextStudent(joined)})

NextCapacity ==
    \/ \E r \in {q \in CapacityRequests : q.op \in {"register", "signup"}} : Begin(1, r)
    \/ RegValidate(1)
    \/ RegLock(1)
    \/ RegCheck(1)
    \/ RegInsert(1, 1)
    \/ RegWriteTmp(1, "ok")
    \/ RegRename(1, TRUE)
    \/ RegToken(1)
    \/ SignupHandler(1)
    \/ Return(1)

SpecCapacity == InitUTC /\ [][NextCapacity]_vars

\* --------------------------------------------------- crash and restart
\* The module body run by a new process: users is loaded from the file,
\* activities is the seed again, the lock is new and no request is being
\* served. Files stay as the old process left them. An exception that
\* leaves _load_users_from_disk ends the import: the process does not start.
Boot ==
    IF LoadRaises(USERS_FILE)
    THEN /\ pc' = [t \in Threads |-> "failed"]
         /\ UNCHANGED <<users, activities, _users_lock, req, subj, resp, atStart>>
    ELSE /\ users' = _load_users_from_disk(USERS_FILE)
         /\ activities' = SeedActivities
         /\ _users_lock' = 0
         /\ pc' = [t \in Threads |-> "idle"]
         /\ req' = [t \in Threads |-> NoReq]
         /\ subj' = [t \in Threads |-> ""]
         /\ resp' = [t \in Threads |-> NoResp]
         /\ atStart' = [t \in Threads |-> Snapshot(EmptyMap, SeedActivities)]

\* The process is killed, at any point of any handler, and started again.
\* midWrite: it dies while json.dump is writing users.tmp, which keeps the
\* part written so far. Clients keep the tokens they hold.
Restart(midWrite) ==
    /\ midWrite => \E t \in Threads : pc[t] = "reg_write_tmp"
    /\ temp_path' = IF midWrite THEN PartialFile(users) ELSE temp_path
    /\ Boot
    /\ registeredWith' = [e \in DOMAIN users' |-> registeredWith[e]]
    /\ UNCHANGED <<envVars, USERS_FILE, issued, successes>>

\* Register requests for two addresses, served concurrently by a UTC
\* process whose disk may fail and which may be killed and restarted.
StoreRequests ==
    {r \in AuthRequests({"A@x.com"}, {PwdA}) \cup AuthRequests({"b@x.com"}, {PwdB}) :
        r.op = "register"}

\* The steps of register, the salt being the same every time and the file
\* system answering as it likes.
StoreHandler(t) ==
    \/ RegValidate(t)
    \/ RegLock(t)
    \/ RegCheck(t)
    \/ RegInsert(t, 1)
    \/ \E o \in WriteOutcomes(Faults) : RegWriteTmp(t, o)
    \/ \E ok \in RenameOutcomes(Faults) : RegRename(t, ok)
    \/ RegToken(t)

NextStore ==
    \/ \E t \in Threads : Arrive(t, StoreRequests)
    \/ \E t \in Threads : StoreHandler(t)
    \/ \E t \in Threads : Return(t)
    \/ \E midWrite \in BOOLEAN : Restart(midWrite)

SpecStore == InitUTC /\ [][NextStore]_vars

\* ------------------------------------------------------- start on any file
\* The mappings a users file can hold: for each address, no record or the
\* record of a password under a salt.
StoredRecords == {HashWithSaltBytes(p, sb) : p \in {PwdA, PwdB}, sb \in SaltBytes}
StoredMaps == UNION {[D -> StoredRecords] : D \in SUBSET {"a@x.com", "b@x.com"}}

\* What the process may find at data/users.json when it starts.
FileStates ==
    {NoFile, BinaryFile, NonObjectFile}
        \cup {JsonFile(m) : m \in StoredMaps}
        \cup {PartialFile(m) : m \in StoredMaps}
        \cup {UnreadableFile(m) : m \in StoredMaps}

\* Before the process starts.
InitLoad ==
    /\ now = 0
    /\ ticks = 0
    /\ tz = 0
    /\ USERS_FILE \in FileStates
    /\ temp_path = NoFile
    /\ users = EmptyMap
    /\ _users_lock = 0
    /\ activities = SeedActivities
    /\ issued = {}
    /\ registeredWith = [e \in {} |-> NoPassword]
    /\ successes = [e \in {} |-> 0]
    /\ atStart = [t \in Threads |-> Snapshot(EmptyMap, SeedActivities)]
    /\ pc = [t \in Threads |-> "down"]
    /\ req = [t \in Threads |-> NoReq]
    /\ subj = [t \in Threads |-> ""]
    /\ resp = [t \in Threads |-> NoResp]

\* The process starts: the module body runs.
Startup ==
    /\ \A t \in Threads : pc[t] = "down"
    /\ Boot
    /\ UNCHANGED <<envVars, USERS_FILE, temp_path, issued, registeredWith, successes>>

NextLoad == Startup

SpecLoad == InitLoad /\ [][NextLoad]_vars

\* ------------------------------------------------------ fair scheduling
\* Register requests racing for the lock, and for an address, in a process
\* that lives on, its disk failing as it likes.
ProgressRequests == {r \in AuthRequests({"A@x.com", "a@X.com"}, {PwdA}) : r.op = "register"}

NextProgress ==
    \/ \E t \in Threads : Arrive(t, ProgressRequests)
    \/ \E t \in Threads : StoreHandler(t)
    \/ \E t \in Threads : Return(t)

\* The steps of register that wait for nothing.
RunningStep(t) ==
    \/ RegValidate(t)
    \/ RegCheck(t)
    \/ RegInsert(t, 1)
    \/ \E o \in WriteOutcomes(Faults) : RegWriteTmp(t, o)
    \/ \E ok \in RenameOutcomes(Faults) : RegRename(t, ok)
    \/ RegToken(t)

\* Every thread that can run does run in the end, and a thread waiting for
\* the lock gets it in the end if the lock is free again and again.
FairScheduling ==
    \A t \in Threads : WF_vars(RunningStep(t)) /\ SF_vars(RegLock(t))

SpecProgress == InitUTC /\ [][NextProgress]_vars /\ FairScheduling

\* ------------------------------------------------- tokens across restarts
\* Register, login and signup requests of one student, served concurrently
\* by a UTC process whose disk may fail and which may be killed and
\* restarted while clients keep their tokens.
SessionRequests ==
    AuthRequests({"A@x.com"}, {PwdA})
        \cup {r \in RosterRequests({"Chess Club"}, Tokens) : r.op = "signup"}

NextSession ==
    \/ \E t \in Threads : Arrive(t, SessionRequests)
    \/ \E t \in Threads : StoreHandler(t)
    \/ \E t \in Threads : LoginStep(t)
    \/ \E t \in Threads : SignupHandler(t)
    \/ \E t \in Threads : Return(t)
    \/ \E midWrite \in BOOLEAN : Restart(midWrite)

SpecSession == InitUTC /\ [][NextSession]_vars

\* ------------------------------------------------------- one process run
\* The requests of one student in a UTC process that lives on, its disk
\* failing as it likes: register and login race on all threads, while the
\* first thread also serves the student's roster requests.
RunAuthRequests == AuthRequests({"A@x.com"}, {PwdA, PwdB})
RunRosterRequests == RosterRequests({"Chess Club"}, Tokens)

NextRun ==
    \/ \E t \in Threads : Arrive(t, RunAuthRequests)
    \/ Arrive(1, RunRosterRequests)
    \/ \E t \in Threads : StoreHandler(t)
    \/ \E t \in Threads : LoginStep(t)
    \/ RosterHandler(1)
    \/ \E t \in Threads : Return(t)

SpecRun == InitUTC /\ [][NextRun]_vars

\* ================================================================ claims
\* The step with which thread t answers its request.
Finishing(t) == pc[t] # "done" /\ pc'[t] = "done"

SignatureVerifies(token) == token.sig = HS256(token.payload, SECRET_KEY)

\* A bearer token of the service for email, living 60 minutes by its claims.
IsTokenFor(token, email) ==
    /\ token.present
    /\ SignatureVerifies(token)
    /\ token.payload.sub = email
    /\ token.payload.exp = token.payload.iat + TOKEN_EXPIRATION_MINUTES

\* t lies between the token's issued-at and expires-at claims.
InLifetime(token, t) == token.payload.iat <= t /\ t < token.payload.exp

RoundTripStep(t) ==
    LET r == req[t]
        email == Lower(r.email)
        answer == resp'[t]
    IN  /\ (/\ r.op = "register"
            /\ Len(r.password) >= MIN_PASSWORD_LENGTH
            /\ email \notin atStart[t].emails)
               => /\ answer.status = 200
                  /\ IsTokenFor(answer.token, email)
                  /\ answer.token \in Tokens'
        /\ (/\ r.op = "login"
            /\ email \in DOMAIN registeredWith
            /\ registeredWith[email] = r.password)
               => /\ answer.status = 200
                  /\ IsTokenFor(answer.token, email)
                  /\ answer.token \in Tokens'
        /\ (/\ r.op = "whoami"
            /\ r.cred \in Tokens
            /\ InLifetime(r.cred, now))
               => /\ answer.status = 200
                  /\ answer.email = r.cred.payload.sub

C3_DecodeIffValid ==
    [][\A t \in Threads :
          (Finishing(t) /\ req[t].op = "whoami" /\ req[t].cred.present) =>
              LET k == req[t].cred
                  answer == resp'[t]
              IN  /\ answer.status = 200 <=>
                        (SignatureVerifies(k) /\ now < k.payload.exp /\ k.payload.sub # "")
                  /\ answer.status = 200 => answer.email = k.payload.sub
                  /\ (SignatureVerifies(k) /\ k.payload.exp <= now)
                        => answer = Response(401, "Token expired")
                  /\ (~SignatureVerifies(k) \/ k.payload.sub = "")
                        => /\ answer.status = 401
                           /\ answer.detail \in {"Invalid token", "Invalid token payload"}]_vars

\* C4 (as claimed): a token issued at UTC time t has expires-at =
\* issued-at + 60 minutes, is accepted at every time in [t, t + 60) and
\* rejected as expired at every time from t + 60 on, whatever the zone of
\* the process.
C4_TokenLifetime ==
    [][\A t \in Threads :
          (Finishing(t) /\ req[t].op = "whoami") =>
              \A g \in issued :
                  g.token = req[t].cred =>
                      /\ g.token.payload.exp = g.token.payload.iat + TOKEN_EXPIRATION_MINUTES
                      /\ (g.at <= now /\ now < g.at + TOKEN_EXPIRATION_MINUTES)
                            => resp'[t].status = 200
                      /\ now >= g.at + TOKEN_EXPIRATION_MINUTES
                            => resp'[t] = Response(401, "Token expired")]_vars

\* C10: login is answered with a token exactly when the lower-cased email
\* is in the store and the password is the one it was registered with;
\* otherwise, registered or not, the answer is the one 401 "Invalid
\* credentials" response, no token is issued and nothing changes.
C10_LoginNonDisclosure ==
    [][\A t \in Threads :
          (Finishing(t) /\ req[t].op = "login") =>
              LET email == Lower(req[t].email)
                  known == /\ email \in DOMAIN users
                           /\ email \in DOMAIN registeredWith
                           /\ registeredWith[email] = req[t].password
              IN  /\ resp'[t].status = 200 <=> known
                  /\ known => IsTokenFor(resp'[t].token, email)
                  /\ ~known =>
                        /\ resp'[t] = Response(401, "Invalid credentials")
                        /\ issued' = issued
                        /\ UNCHANGED <<users, USERS_FILE, temp_path, _users_lock, activities>>]_vars

\* C10's case: a registered email with a wrong password was turned away.
C10_Witness ==
    \E t \in Threads :
        /\ pc[t] = "done"
        /\ req[t].op = "login"
        /\ Lower(req[t].email) \in DOMAIN users
        /\ registeredWith[Lower(req[t].email)] # req[t].password
        /\ resp[t] = Response(401, "Invalid credentials")

\* The list without e.
Others(s, e) == SelectSeq(s, LAMBDA x : x # e)

\* C2 (register requests racing for one lower-cased email): at most one is
\* ever answered with a token; a stored record never changes or goes away;
\* a request answered with a token arrived before the email was registered
\* and its password is the stored one; every other one is answered 400
\* "User already exists", issues no token and leaves the store as it is,
\* as is every request that arrives once the email is registered; and
\* login with the first registrant's password, in any letter case of the
\* email, is answered with a token.
C2_UniqueRegistration ==
    [][/\ \A e \in DOMAIN successes' : successes'[e] <= 1
       /\ \A e \in DOMAIN users : e \in DOMAIN users' /\ users'[e] = users[e]
       /\ \A t \in Threads :
             LET email == Lower(req[t].email)
             IN  /\ (/\ Finishing(t)
                     /\ req[t].op = "register"
                     /\ Len(req[t].password) >= MIN_PASSWORD_LENGTH)
                        => \/ /\ resp'[t].status = 200
                              /\ IsTokenFor(resp'[t].token, email)
                              /\ email \notin atStart[t].emails
                              /\ registeredWith[email] = req[t].password
                           \/ /\ resp'[t] = Response(400, "User already exists")
                              /\ email \in DOMAIN users
                              /\ issued' = issued
                              /\ users' = users
                 /\ (/\ Finishing(t)
                     /\ req[t].op = "register"
                     /\ Len(req[t].password) >= MIN_PASSWORD_LENGTH
                     /\ email \in atStart[t].emails)
                        => resp'[t] = Response(400, "User already exists")
                 /\ (/\ Finishing(t)
                     /\ req[t].op = "login"
                     /\ email \in DOMAIN registeredWith
                     /\ registeredWith[email] = req[t].password)
                        => resp'[t].status = 200]_vars

\* C2's case: A@x.com and a@X.com raced, both arriving before the email
\* was registered; one got the token, the other "User already exists".
C2_Witness ==
    \E t, u \in Threads :
        /\ pc[t] = "done" /\ pc[u] = "done"
        /\ req[t].op = "register" /\ req[u].op = "register"
        /\ req[t].email = "A@x.com" /\ req[u].email = "a@X.com"
        /\ atStart[t].emails = {} /\ atStart[u].emails = {}
        /\ resp[t].status = 200
        /\ resp[u] = Response(400, "User already exists")

RosterContractStep(t) ==
    LET r == req[t]
        e == subj[t]
        before == atStart[t].activities
        answer == resp'[t]
    IN  IF r.name \notin DOMAIN before
        THEN /\ answer = Response(404, "Activity not found")
             /\ activities' = before
        ELSE LET member == Contains(before[r.name].participants, e)
             IN  CASE r.op = "signup" /\ member ->
                        /\ answer = Response(400, "Student is already signed up")
                        /\ activities' = before
                   [] r.op = "signup" /\ ~member ->
                        /\ answer.status = 200
                        /\ answer.email = e
                        /\ activities' =
                              [before EXCEPT ![r.name].participants = Append(@, e)]
                   [] r.op = "unregister" /\ ~member ->
                        /\ answer = Response(400, "Student is not signed up for this activity")
                        /\ activities' = before
                   [] r.op = "unregister" /\ member ->
                        /\ answer.status = 200
                        /\ answer.email = e
                        /\ activities' =
                              [before EXCEPT ![r.name].participants = Others(@, e)]

\* C5: with requests served one after the other, an authenticated signup is
\* answered 404 for an unknown activity, 400 "already signed up" if the
\* subject was in the roster when the request arrived, and otherwise 200
\* with the subject appended; an authenticated unregister is answered 404,
\* 400 "not signed up" if the subject was not in the roster, and otherwise
\* 200 with the subject removed; after a failing call all rosters are as
\* they were.
C5_RosterContract ==
    [][\A t \in Threads :
          (Finishing(t) /\ req[t].op \in {"signup", "unregister"} /\ subj[t] # "")
              => RosterContractStep(t)]_vars

\* C5's case: a second signup of a subject who is not a seeded participant
\* was turned away (so a first one had succeeded).
C5_Witness ==
    \E t \in Threads :
        /\ pc[t] = "done"
        /\ req[t].op = "signup"
        /\ subj[t] = "a@x.com"
        /\ resp[t] = Response(400, "Student is already signed up")
        /\ Contains(activities[req[t].name].participants, "a@x.com")

\* C6 (as claimed): no roster ever holds the same email twice.
C6_NoDuplicateParticipants ==
    \A n \in DOMAIN activities :
        \A e \in Range(activities[n].participants) :
            Count(activities[n].participants, e) <= 1

\* C7 (as claimed): no roster is ever longer than max_participants.
C7_CapacityRespected ==
    \A n \in DOMAIN activities :
        Len(activities[n].participants) <= activities[n].max_participants

\* A step of a roster handler by thread t.
RosterStep(t) ==
    /\ pc[t] \in {"su_auth", "su_check", "su_append", "un_auth", "un_check", "un_remove"}
    /\ pc'[t] # pc[t]

\* C8: a step of a signup or unregister request whose token has subject s
\* and whose activity is n leaves the user store and its files, the set of
\* activities, every description, schedule and max_participants, every
\* other roster, and the other emails of n's roster with their order as
\* they are; the rosters change only by such a step, of a request whose
\* token is one the service issued.
C8_Frame ==
    [][/\ \A t \in Threads :
             RosterStep(t) =>
                 LET s == req[t].cred.payload.sub
                 IN  /\ UNCHANGED <<users, USERS_FILE, temp_path, _users_lock>>
                     /\ DOMAIN activities' = DOMAIN activities
                     /\ \A n \in DOMAIN activities :
                           /\ activities'[n].description = activities[n].description
                           /\ activities'[n].schedule = activities[n].schedule
                           /\ activities'[n].max_participants = activities[n].max_participants
                           /\ n # req[t].name => activities'[n] = activities[n]
                           /\ Others(activities'[n].participants, s)
                                 = Others(activities[n].participants, s)
                     /\ activities' # activities => req[t].cred \in Tokens
       /\ activities' # activities => \E t \in Threads : RosterStep(t)]_vars

\* C8's case: a@x.com has left the Chess Club again; the seeded participants
\* are still there, in their order.
C8_Witness ==
    \E t \in Threads :
        /\ pc[t] = "done"
        /\ req[t].op = "unregister"
        /\ req[t].name = "Chess Club"
        /\ resp[t].status = 200
        /\ resp[t].email = "a@x.com"
        /\ activities = SeedActivities

\* A step of get_current_user by thread t.
AuthStep(t) ==
    /\ pc[t] \in {"whoami", "su_auth", "un_auth"}
    /\ pc'[t] # pc[t]

\* No credentials, a signature that does not verify, or expires-at passed.
Unauthentic(cred, t) ==
    \/ ~cred.present
    \/ ~SignatureVerifies(cred)
    \/ cred.payload.exp <= t

\* C9: whoami, signup and unregister with no credentials, a token whose
\* signature does not verify or an expired token are answered 401 by the
\* authentication step itself, with rosters and user store unchanged; a
\* request gets a current user only from a token the service issued, whose
\* signature verifies and which has not expired, and it is that token's
\* subject; and the rosters change only in the last step of a request that
\* got one.
C9_AuthGate ==
    [][/\ \A t \in Threads :
             (AuthStep(t) /\ Unauthentic(req[t].cred, now)) =>
                 /\ pc'[t] = "done"
                 /\ resp'[t].status = 401
                 /\ subj'[t] = ""
                 /\ UNCHANGED <<activities, users, USERS_FILE, temp_path>>
       /\ \A t \in Threads :
             (subj'[t] # "" /\ subj'[t] # subj[t]) =>
                 /\ AuthStep(t)
                 /\ req[t].cred \in Tokens
                 /\ ~Unauthentic(req[t].cred, now)
                 /\ subj'[t] = req[t].cred.payload.sub
       /\ activities' # activities =>
             \E t \in Threads :
                 /\ subj[t] # ""
                 /\ pc[t] \in {"su_append", "un_remove"}
                 /\ pc'[t] = "done"]_vars

\* C9's case: an unregister with an expired token of a subject who is in
\* the roster was answered 401, and the subject is still in the roster.
C9_Witness ==
    \E t \in Threads :
        /\ pc[t] = "done"
        /\ req[t].op = "unregister"
        /\ req[t].cred \in Tokens
        /\ req[t].cred.payload.exp <= now
        /\ resp[t] = Response(401, "Token expired")
        /\ req[t].name \in DOMAIN activities
        /\ Contains(activities[req[t].name].participants, req[t].cred.payload.sub)

\* ------------------------------------------------------------ persistence
\* What a restart would load now.
Persisted == _load_users_from_disk(USERS_FILE)

\* The record (salt, hash) was made by hashing password.
MadeFrom(record, password) == _hash_password(password, record.salt) = record

\* C11: whatever the interleaving of concurrent register requests, the disk
\* faults and the restarts, every email whose registration was answered
\* with a token is in the users file with the record made from the
\* password it was registered with, and against the mapping loaded from
\* the file login with that email succeeds with that password and fails
\* with every other.
C11_Durability ==
    \A e \in DOMAIN successes :
        /\ USERS_FILE.exists
        /\ e \in DOMAIN Persisted
        /\ e \in DOMAIN users
        /\ Persisted[e] = users[e]
        /\ MadeFrom(Persisted[e], registeredWith[e])
        /\ \A p \in Passwords :
              login(Persisted, e, p, now, tz).status = 200 <=> p = registeredWith[e]

\* C11's case: a@x.com was registered with a token, then the process was
\* killed in the middle of the save of b@x.com (users.tmp is cut short) and
\* runs again on the mapping loaded from the file, which holds a@x.com.
C11_Witness ==
    /\ "a@x.com" \in DOMAIN successes
    /\ temp_path = PartialFile(temp_path.obj)
    /\ DOMAIN temp_path.obj = {"a@x.com", "b@x.com"}
    /\ \A t \in Threads : pc[t] = "idle"
    /\ users = Persisted
    /\ DOMAIN users = {"a@x.com"}

\* ------------------------------------------------------- weak passwords
TooShort(r) == r.op = "register" /\ Len(r.password) < MIN_PASSWORD_LENGTH

\* C12: a register request whose password has fewer than 8 characters is
\* answered 400 "Password must be at least 8 characters" by its first
\* step, whether or not the email is registered, without taking the lock,
\* touching the in-memory mapping or the files, or issuing a token; and a
\* register request whose password has 8 characters or more is never
\* answered so.
C12_WeakPasswordRejected ==
    [][\A t \in Threads :
          /\ (TooShort(req[t]) /\ pc[t] # "done" /\ pc'[t] # pc[t]) =>
                /\ pc[t] = "reg_validate"
                /\ pc'[t] = "done"
                /\ resp'[t] = Response(400, "Password must be at least 8 characters")
                /\ UNCHANGED <<users, USERS_FILE, temp_path, _users_lock, issued>>
          /\ (Finishing(t) /\ req[t].op = "register" /\ ~TooShort(req[t])) =>
                resp'[t] # Response(400, "Password must be at least 8 characters")]_vars

\* C12's case: a register with a 7-character password for an address that
\* is registered was answered as a weak password.
C12_Witness ==
    \E t \in Threads :
        /\ pc[t] = "done"
        /\ TooShort(req[t])
        /\ Lower(req[t].email) \in DOMAIN users
        /\ resp[t] = Response(400, "Password must be at least 8 characters")

\* C13: at every moment, whatever fails and wherever the process is killed
\* during a save, users.json is absent or holds one complete mapping; and
\* it changes only by the rename of a save, to the whole mapping that save
\* was called with (the in-memory mapping, which the saving handler holds
\* the lock on).
C13_AtomicPersistence ==
    /\ [](USERS_FILE = NoFile \/ USERS_FILE = JsonFile(USERS_FILE.obj))
    /\ [][USERS_FILE' # USERS_FILE =>
             \E t \in Threads :
                 /\ pc[t] = "reg_rename"
                 /\ _users_lock = t
                 /\ USERS_FILE' = JsonFile(users)]_vars

\* C13's case: the process was killed after users.tmp was written in full
\* and before the rename; users.json still holds the mapping of the save
\* before, which the new process runs on.
C13_Witness ==
    /\ USERS_FILE = JsonFile(users)
    /\ DOMAIN users = {"b@x.com"}
    /\ temp_path = JsonFile(temp_path.obj)
    /\ DOMAIN temp_path.obj = {"a@x.com", "b@x.com"}
    /\ \A t \in Threads : pc[t] = "idle"

\* -------------------------------------------------------------- start-up
\* The step in which the process starts, or fails to.
Starting == (\A t \in Threads : pc[t] = "down") /\ (\E t \in Threads : pc'[t] # "down")

\* C14 (as claimed): whatever is at data/users.json (nothing, a file that
\* cannot be read, bytes that are not text, text that is not JSON, JSON
\* that is not an object), the process starts, on the empty mapping, and
\* on a file holding a JSON object it starts on that object.
C14_LoadNeverFails ==
    [][Starting =>
          /\ \A t \in Threads : pc'[t] = "idle"
          /\ users' = IF USERS_FILE = JsonFile(USERS_FILE.obj)
                      THEN USERS_FILE.obj
                      ELSE EmptyMap]_vars

\* ----------------------------------------------------------- failed saves
\* Thread t's step (the process living on) was the writing of users.tmp
\* and did not leave the whole mapping there, or was the rename and did
\* not put it at users.json.
SaveStep(t, label) == pc[t] = label /\ pc'[t] \notin {label, "idle"}
SaveFails(t) ==
    \/ SaveStep(t, "reg_write_tmp") /\ temp_path' # JsonFile(users)
    \/ SaveStep(t, "reg_rename") /\ USERS_FILE' # JsonFile(users)

\* C15: when the writing of users.tmp or the rename fails in a register
\* request, that step ends the request with 500 and no token, no token
\* is issued, and users.json is what it was; and users.json changes only in
\* the rename step of a request that goes on to its token, so a request
\* that ends in a failed save has not changed it.
C15_WriteFailureSurfaced ==
    [][/\ \A t \in Threads :
             SaveFails(t) =>
                 /\ pc'[t] = "done"
                 /\ resp'[t].status = 500
                 /\ resp'[t].token = NoCred
                 /\ issued' = issued
                 /\ USERS_FILE' = USERS_FILE
       /\ USERS_FILE' # USERS_FILE =>
             \E t \in Threads : pc[t] = "reg_rename" /\ pc'[t] = "reg_token"]_vars

\* C15's case: the register of a@x.com was answered 500 after its rename
\* failed (users.tmp holds the new mapping), no token for a@x.com is out,
\* and users.json holds b@x.com alone as it did before.
C15_Witness ==
    \E t \in Threads :
        /\ pc[t] = "done"
        /\ req[t].op = "register"
        /\ Lower(req[t].email) = "a@x.com"
        /\ resp[t] = Response(500, "Internal Server Error")
        /\ temp_path = JsonFile(users)
        /\ USERS_FILE = JsonFile(USERS_FILE.obj)
        /\ DOMAIN USERS_FILE.obj = {"b@x.com"}
        /\ \A g \in issued : g.token.payload.sub # "a@x.com"

\* -------------------------------------------------------- lock discipline
\* The check-insert-save section of register_user (the with-block).
Section == {"reg_check", "reg_insert", "reg_write_tmp", "reg_rename"}
InSection == {t \in Threads : pc[t] \in Section}

C17_WriteOnce ==
    [][/\ \A e \in DOMAIN users : e \in DOMAIN users' /\ users'[e] = users[e]
       /\ users' # users =>
             \E t \in Threads :
                 /\ pc[t] = "reg_insert"
                 /\ DOMAIN users' = DOMAIN users \cup {Lower(req[t].email)}
       /\ \A t \in Threads :
             (Finishing(t) /\ req[t].op = "login") =>
                 LET e == Lower(req[t].email)
                 IN  IF e \notin DOMAIN users
                     THEN resp'[t] = Response(401, "Invalid credentials")
                     ELSE /\ MadeFrom(users[e], registeredWith[e])
                          /\ resp'[t].status = 200 <=> req[t].password = registeredWith[e]]_vars

\* C17's case: a login was answered with a token for an address whose
\* register request is still in its save, the record not yet in the file.
C17_Witness ==
    \E t, u \in Threads :
        /\ pc[t] = "done"
        /\ req[t].op = "login"
        /\ resp[t].status = 200
        /\ pc[u] \in {"reg_write_tmp", "reg_rename"}
        /\ Lower(req[u].email) = Lower(req[t].email)
        /\ Lower(req[t].email) \notin DOMAIN Persisted

\* ----------------------------------------------------- racing unregisters
\* C18 (as claimed): unregister requests of one subject for one activity,
\* served concurrently, end as they would one after the other: each is
\* answered with success (200), NotFound (404) or NotRegistered (400) and
\* nothing else, and a success takes one entry of the subject out of the
\* roster (the only one, if there was one) and keeps the other
\* participants in their order.
C18_ConcurrentUnregister ==
    [][\A t \in Threads :
          (Finishing(t) /\ req[t].op = "unregister" /\ subj[t] # "") =>
              /\ resp'[t].status \in {200, 404, 400}
              /\ resp'[t].status = 200 =>
                    LET before == activities[req[t].name].participants
                        after == activities'[req[t].name].participants
                    IN  /\ Count(after, subj[t]) = Count(before, subj[t]) - 1
                        /\ Others(after, subj[t]) = Others(before, subj[t])]_vars

\* ------------------------------------------------ memory and disk agree
\* C19 (as claimed): whenever no register handler holds the lock, the
\* in-memory mapping is what a load of users.json would return; and a
\* register request that ends in an error leaves the in-memory mapping as
\* it found it: the step answering a weak password or a taken address
\* changes nothing, and when a failed save is answered the record the
\* request inserted is not in the mapping.
C19_MemoryDiskAgreement ==
    /\ [](_users_lock = 0 => users = Persisted)
    /\ [][\A t \in Threads :
             (Finishing(t) /\ req[t].op = "register" /\ resp'[t].status # 200) =>
                 IF pc[t] \in {"reg_write_tmp", "reg_rename"}
                 THEN Lower(req[t].email) \notin DOMAIN users'
                 ELSE users' = users]_vars

\* ------------------------------------------------ tokens and the store
\* C20 (as claimed): at every moment, also after a restart that reloads
\* the store from users.json, every token _decode_token accepts has a
\* subject that is a key of the in-memory store; and every signup that
\* adds its subject to a roster does so for a subject that is a key of
\* the store at that moment.
C20_TokensBelongToUsers ==
    /\ [](\A k \in Credentials \ {NoCred} :
             _decode_token(k, now).ok => _decode_token(k, now).sub \in DOMAIN users)
    /\ [][\A t \in Threads :
             (pc[t] = "su_append" /\ pc'[t] = "done" /\ activities' # activities) =>
                 subj[t] \in DOMAIN users]_vars

====
